---- MODULE Spec2Model ----
(***************************************************************************)
(* ProxBoard: a controllable UDP relay.  The repository holds two runtime  *)
(* variants of ProxBoardService: the Bun one (src/src/ProxBoardService.ts) *)
(* and the Node dgram/ws one (src/unnamed/part_000).  The variable         *)
(* `variant` selects which of the two a behaviour runs.                    *)
(*                                                                         *)
(* Every `await` on an I/O promise and every event-emitter callback is a   *)
(* step of its own: between two such steps any other handler may run.      *)
(* UDP binds are exclusive: binding a port that a live socket holds fails  *)
(* with EADDRINUSE.                                                        *)
(***************************************************************************)
EXTENDS Integers, Sequences, FiniteSets, TLC

\* ------------------------------------------------------------------ bounds
MaxConns == 2
MaxCreates == 2
PortSpan == 1

\* ------------------------------------------------------- program constants
MinProxyPort == 10000
MaxProxyPort == MinProxyPort + PortSpan
CloseAuthRequired == 4001
CloseMalformed == 4002
CloseInvalidToken == 4003
MaxHostnameBytes == 255
MaxPort == 65535

Ports == MinProxyPort..MaxProxyPort
Conns == 1..MaxConns
Tasks == 1..MaxCreates

\* ------------------------------------------------------------------ state
VARIABLES
    variant,         \* "bun" | "node": which ProxBoardService runs
    phase,           \* "running" | "stopped" (shutdown returned) | "exited" | "crashed"
    activeProxies,   \* the Map, in insertion order: <<[port, owner]>>
    connState,       \* per connection: "none" | "open" | "closed"
    authenticated,   \* per connection: ws.data.authenticated / the closure's flag
    authTimeout,     \* per connection: the 5 s timer is pending
    closeCode,       \* per connection: the code the server closed it with, 0 if none
    pc,              \* per createProxy call: where it is suspended
    tConn,           \* per createProxy call: the connection that sent it
    tHost,           \* per createProxy call: proxyHost
    tPort,           \* per createProxy call: the probed candidate / availablePort
    sock,            \* per createProxy call: its proxySocket
    out,             \* what the last step wrote to a control connection
    dgram,           \* what the last step did on a relay socket
    bindEv,          \* the bind the last step saw complete, and its outcome
    codec            \* a call of the exported codec functions: arguments, result

vars == <<variant, phase, activeProxies, connState, authenticated,
          authTimeout, closeCode, pc, tConn, tHost, tPort, sock, out, dgram,
          bindEv, codec>>

connVars == <<connState, authenticated, authTimeout, closeCode>>
taskVars == <<pc, tConn, tHost, tPort, sock>>

\* ------------------------------------------------------------ wire codec
\* Buffers are sequences of bytes.
Byte == 0..255

\* A string is a sequence of UTF-16 code units, as in JavaScript.
IsHighSurrogate(c) == c >= 55296 /\ c < 56320
IsLowSurrogate(c) == c >= 56320 /\ c < 57344
ReplacementChar == 65533
ByteOrderMark == 65279

\* The concatenation of parts[lo], ..., parts[hi].
RECURSIVE Flatten(_, _, _)
Flatten(parts, lo, hi) ==
    IF lo > hi THEN <<>>
    ELSE IF lo = hi THEN parts[lo]
    ELSE LET mid == (lo + hi) \div 2
         IN  Flatten(parts, lo, mid) \o Flatten(parts, mid + 1, hi)

\* TextEncoder.encode / Buffer.from(s, 'utf8'), the bytes unit i of s gives:
\* a surrogate pair gives four bytes (at its first unit), a surrogate on its
\* own gives the bytes of U+FFFD.
EncodeUnit(s, i) ==
    LET c == s[i]
    IN  IF c < 128 THEN <<c>>
        ELSE IF c < 2048 THEN <<192 + (c \div 64), 128 + (c % 64)>>
        ELSE IF IsHighSurrogate(c) /\ i < Len(s) /\ IsLowSurrogate(s[i + 1])
        THEN LET u == 65536 + (c - 55296) * 1024 + (s[i + 1] - 56320)
             IN  <<240 + (u \div 262144), 128 + ((u \div 4096) % 64),
                   128 + ((u \div 64) % 64), 128 + (u % 64)>>
        ELSE IF IsLowSurrogate(c) /\ i > 1 /\ IsHighSurrogate(s[i - 1]) THEN <<>>
        ELSE IF IsHighSurrogate(c) \/ IsLowSurrogate(c) THEN <<239, 191, 189>>
        ELSE <<224 + (c \div 4096), 128 + ((c \div 64) % 64), 128 + (c % 64)>>

Utf8Encode(s) == Flatten([i \in 1..Len(s) |-> EncodeUnit(s, i)], 1, Len(s))

\* The UTF-8 decoder: the bytes a lead byte asks for, and the range its
\* second byte must lie in.
SeqLen(x) ==
    IF x >= 194 /\ x < 224 THEN 2
    ELSE IF x >= 224 /\ x < 240 THEN 3
    ELSE IF x >= 240 /\ x < 245 THEN 4
    ELSE 1
SecondLow(x) == IF x = 224 THEN 160 ELSE IF x = 240 THEN 144 ELSE 128
SecondHigh(x) == IF x = 237 THEN 159 ELSE IF x = 244 THEN 143 ELSE 191
IsContinuation(y) == y >= 128 /\ y < 192

\* How many of the bytes after the lead byte b[j] continue its sequence,
\* given that k of them do.
RECURSIVE Continues(_, _, _)
Continues(b, j, k) ==
    IF k + 1 >= SeqLen(b[j]) \/ Len(b) < j + k + 1 THEN k
    ELSE LET y == b[j + k + 1]
             lo == IF k = 0 THEN SecondLow(b[j]) ELSE 128
             hi == IF k = 0 THEN SecondHigh(b[j]) ELSE 191
         IN  IF y >= lo /\ y <= hi THEN Continues(b, j, k + 1) ELSE k

\* Byte i is taken by the sequence of a lead byte before it.
Consumed(b, i) ==
    /\ IsContinuation(b[i])
    /\ \E d \in 1..3 :
          /\ i - d >= 1
          /\ ~IsContinuation(b[i - d])
          /\ \A e \in 1..(d - 1) : IsContinuation(b[i - e])
          /\ Continues(b, i - d, 0) >= d

\* What the decoder gives at byte i: a complete sequence gives its code point
\* (two code units above U+FFFF); a byte or a truncated sequence that is no
\* UTF-8 gives one U+FFFD.
DecodeAt(b, i) ==
    LET x == b[i]
        n == SeqLen(x)
    IN  IF Consumed(b, i) THEN <<>>
        ELSE IF x < 128 THEN <<x>>
        ELSE IF n = 1 \/ Continues(b, i, 0) + 1 < n THEN <<ReplacementChar>>
        ELSE IF n = 2 THEN <<(x - 192) * 64 + (b[i + 1] - 128)>>
        ELSE IF n = 3
        THEN <<(x - 224) * 4096 + (b[i + 1] - 128) * 64 + (b[i + 2] - 128)>>
        ELSE LET u == (x - 240) * 262144 + (b[i + 1] - 128) * 4096
                         + (b[i + 2] - 128) * 64 + (b[i + 3] - 128) - 65536
             IN  <<55296 + (u \div 1024), 56320 + (u % 1024)>>

Utf8Decode(b) == Flatten([i \in 1..Len(b) |-> DecodeAt(b, i)], 1, Len(b))

\* new TextDecoder().decode (Bun variant) drops a leading byte order mark;
\* Buffer.toString('utf8') (Node variant) keeps it.
StripsBOM(v) == v = "bun"
DecodeText(v, b) ==
    LET str == Utf8Decode(b)
    IN  IF StripsBOM(v) /\ str # <<>> /\ Head(str) = ByteOrderMark
        THEN Tail(str) ELSE str

Slice(b, from, to) == [i \in 1..(IF to > from THEN to - from ELSE 0) |-> b[from + i]]

\* encodeProxyMessage: the frame, or the thrown error.
EncodeThrowsPortOnly(targetHost, targetPort) == targetPort < 1 \/ targetPort > MaxPort
EncodeThrows(targetHost, targetPort) ==
    \/ Len(Utf8Encode(targetHost)) > MaxHostnameBytes
    \/ targetPort < 1
    \/ targetPort > MaxPort

encodeProxyMessage(targetHost, targetPort, payload) ==
    LET hostnameBuffer == Utf8Encode(targetHost)
        hostnameLength == Len(hostnameBuffer)
    IN  <<hostnameLength>> \o hostnameBuffer
          \o <<targetPort \div 256, targetPort % 256>> \o payload

\* decodeProxyMessage: the thrown cases, then the decoded fields.
DecodeThrowsHeaderOnly(messageBuffer) ==
    Len(messageBuffer) < 4 \/ Len(messageBuffer) < 1 + messageBuffer[1] + 2
DecodeThrows(messageBuffer) ==
    \/ Len(messageBuffer) < 4
    \/ Len(messageBuffer) < 1 + messageBuffer[1] + 2
    \/ LET n == messageBuffer[1]
           targetPort == messageBuffer[n + 2] * 256 + messageBuffer[n + 3]
       IN  \/ DecodeText(variant, Slice(messageBuffer, 1, 1 + n)) = <<>>
           \/ targetPort < 1
           \/ targetPort > MaxPort

decodeProxyMessage(messageBuffer) ==
    LET n == messageBuffer[1]
    IN  [targetHost |-> DecodeText(variant, Slice(messageBuffer, 1, 1 + n)),
         targetPort |-> messageBuffer[n + 2] * 256 + messageBuffer[n + 3],
         payload    |-> Slice(messageBuffer, 1 + n + 2, Len(messageBuffer))]

\* ------------------------------------------------------------- input sets
AccessToken == "token"
Tokens == {AccessToken, "wrong"}

AddrProxy == <<49>>
AddrTarget == <<56>>
NoHost == [address |-> <<>>, port |-> 0]
\* create arguments: the address (possibly empty) and the port as JSON gave
\* it: a number (in range or not) or another type.
CreateArgs == {[address |-> AddrProxy, port |-> [isNum |-> TRUE, val |-> 9999]],
               [address |-> AddrProxy, port |-> [isNum |-> TRUE, val |-> 70000]],
               [address |-> AddrProxy, port |-> [isNum |-> FALSE, val |-> 0]],
               [address |-> <<>>, port |-> [isNum |-> TRUE, val |-> 9999]]}
\* stop arguments: every port of the range and one below it.
StopPorts == Ports \cup {MinProxyPort - 1}

\* --------------------------------------------------------- the Map helpers
MapHas(m, p) == \E i \in 1..Len(m) : m[i].port = p
MapKeys(m) == {m[i].port : i \in 1..Len(m)}
MapGet(m, p) == (CHOOSE i \in 1..Len(m) : m[i].port = p)
MapOwner(m, p) == m[MapGet(m, p)].owner
MapDelete(m, p) == SelectSeq(m, LAMBDA e : e.port # p)
MapSet(m, p, t) ==
    IF MapHas(m, p)
    THEN [i \in 1..Len(m) |-> IF m[i].port = p THEN [port |-> p, owner |-> t] ELSE m[i]]
    ELSE Append(m, [port |-> p, owner |-> t])

\* ----------------------------------------------------------------- inputs
\* Control messages as the client sends them.  "garbage" is text JSON.parse
\* rejects; "null" is JSON that parses to a non-object.
NoArgs == [token |-> "", proxyHostAddress |-> <<>>,
           proxyHostPort |-> [isNum |-> FALSE, val |-> 0], proxyPort |-> 0]
Msg(kind) == [kind |-> kind, args |-> NoArgs]
Messages ==
    {[kind |-> "auth", args |-> [NoArgs EXCEPT !.token = tk]] : tk \in Tokens}
    \cup {Msg("list"), Msg("unknown"), Msg("garbage"), Msg("null")}
    \cup {[kind |-> "create",
           args |-> [NoArgs EXCEPT !.proxyHostAddress = a.address,
                                   !.proxyHostPort = a.port]] : a \in CreateArgs}
    \cup {[kind |-> "stop", args |-> [NoArgs EXCEPT !.proxyPort = p]] : p \in StopPorts}

\* ---------------------------------------------------------------- outputs
\* What a step did on the control channel: the connection whose message it
\* handled (from, req) or whose timer fired (timer), the response it sent (to,
\* status, action, message, proxyPort, proxies) and the close code it gave.
NoOut == [from |-> 0, req |-> Msg(""), timer |-> 0,
          to |-> 0, status |-> "", action |-> "", message |-> "",
          proxyPort |-> 0, proxies |-> <<>>, close |-> 0]
Resp(c, status, action, message) ==
    [NoOut EXCEPT !.to = c, !.status = status, !.action = action, !.message = message]
Handled(c, m, o) == [o EXCEPT !.from = c, !.req = m]
\* What a step did on a relay socket: the datagram it was given (on, from, buf,
\* with the session's proxyHost), what it sent, whether the handler threw.
NoDgram == [on |-> 0, from |-> NoHost, buf |-> <<>>, proxyHost |-> NoHost,
            sent |-> <<>>, threw |-> FALSE]
NoBind == [task |-> 0, port |-> 0, probe |-> FALSE, outcome |-> ""]

\* A call of the exported codec functions from outside the service: the
\* arguments of encodeProxyMessage, the buffer given to decodeProxyMessage,
\* whether the last call threw, what decodeProxyMessage returned and the
\* highest offset (counted from 1) it read.
NoResult == [targetHost |-> <<>>, targetPort |-> 0, payload |-> <<>>]
NoCall == [step |-> "none", host |-> <<>>, port |-> 0, payload |-> <<>>,
           buf |-> <<>>, threw |-> FALSE, result |-> NoResult, reads |-> 0]

TypeOK ==
    /\ variant \in {"bun", "node"}
    /\ phase \in {"running", "stopped", "exited", "crashed"}
    /\ \A i \in 1..Len(activeProxies) :
          activeProxies[i].port \in Int /\ activeProxies[i].owner \in Tasks
    /\ connState \in [Conns -> {"none", "open", "closed"}]
    /\ authenticated \in [Conns -> BOOLEAN]
    /\ authTimeout \in [Conns -> BOOLEAN]
    /\ closeCode \in [Conns -> {0, CloseAuthRequired, CloseMalformed, CloseInvalidToken}]
    /\ pc \in [Tasks -> {"idle", "probe", "probed", "bind", "done", "hung"}]
    /\ tConn \in [Tasks -> 0..MaxConns]
    /\ tPort \in [Tasks -> {0} \cup Ports]
    /\ sock \in [Tasks -> {"none", "bound", "closing", "closed"}]
    /\ codec.step \in {"none", "args", "raw", "encoded", "decoded"}

Init ==
    /\ variant \in {"bun", "node"}
    /\ phase = "running"
    /\ activeProxies = <<>>
    /\ connState = [c \in Conns |-> "none"]
    /\ authenticated = [c \in Conns |-> FALSE]
    /\ authTimeout = [c \in Conns |-> FALSE]
    /\ closeCode = [c \in Conns |-> 0]
    /\ pc = [t \in Tasks |-> "idle"]
    /\ tConn = [t \in Tasks |-> 0]
    /\ tHost = [t \in Tasks |-> NoHost]
    /\ tPort = [t \in Tasks |-> 0]
    /\ sock = [t \in Tasks |-> "none"]
    /\ out = NoOut
    /\ dgram = NoDgram
    /\ bindEv = NoBind
    /\ codec = NoCall

\* The process still runs its event loop.
Alive == phase \in {"running", "stopped"}

\* Every open connection ends: the process is gone, or the server ended them.
ProcessGone == [c \in Conns |-> IF connState[c] = "open" THEN "closed" ELSE connState[c]]

\* ------------------------------------------------------- control channel
\* ws.close(code) on connection c: a no-op unless the connection is open.
\* Bun's close handler clears the pending auth timer; ws has no such handler.
CloseStateStaysOpen(c, code) == connState
CloseState(c, code) ==
    IF connState[c] = "open" THEN [connState EXCEPT ![c] = "closed"] ELSE connState
CloseCodeOf(c, code) ==
    IF connState[c] = "open" THEN [closeCode EXCEPT ![c] = code] ELSE closeCode
CloseTimer(c) ==
    IF variant = "bun" THEN [authTimeout EXCEPT ![c] = FALSE] ELSE authTimeout

\* handleWebSocketOpen / wss.on('connection'): arm the auth deadline.
handleWebSocketOpen(c) ==
    /\ phase = "running"
    /\ connState[c] = "none"
    /\ \A d \in Conns : d < c => connState[d] # "none"
    /\ connState' = [connState EXCEPT ![c] = "open"]
    /\ authenticated' = [authenticated EXCEPT ![c] = FALSE]
    /\ authTimeout' = [authTimeout EXCEPT ![c] = TRUE]
    /\ out' = NoOut
    /\ dgram' = NoDgram
    /\ bindEv' = NoBind
    /\ UNCHANGED <<variant, phase, activeProxies, closeCode, taskVars>>
    /\ UNCHANGED codec

\* The setTimeout callback of the auth deadline.
TimerNeverCloses(c) == FALSE
TimerCloses(c) == ~authenticated[c]

AuthTimeoutFires(c) ==
    /\ Alive
    /\ authTimeout[c]
    /\ authTimeout' = [authTimeout EXCEPT ![c] = FALSE]
    /\ IF TimerCloses(c)
       THEN /\ connState' = CloseState(c, CloseAuthRequired)
            /\ closeCode' = CloseCodeOf(c, CloseAuthRequired)
            /\ out' = [NoOut EXCEPT !.timer = c,
                         !.close = IF connState[c] = "open" THEN CloseAuthRequired ELSE 0]
       ELSE /\ UNCHANGED <<connState, closeCode>>
            /\ out' = [NoOut EXCEPT !.timer = c]
    /\ dgram' = NoDgram
    /\ bindEv' = NoBind
    /\ UNCHANGED <<variant, phase, activeProxies, authenticated, taskVars>>
    /\ UNCHANGED codec

handleWebSocketCloseEndsSessions(c) ==
    /\ Alive
    /\ connState[c] = "open"
    /\ connState' = [connState EXCEPT ![c] = "closed"]
    /\ authTimeout' = CloseTimer(c)
    /\ out' = NoOut
    /\ dgram' = NoDgram
    /\ bindEv' = NoBind
    /\ activeProxies' = <<>>
    /\ sock' = [t \in Tasks |-> IF sock[t] = "bound" THEN "closed" ELSE sock[t]]
    /\ tPort' = [t \in Tasks |-> IF sock'[t] = "closed" THEN 0 ELSE tPort[t]]
    /\ tHost' = [t \in Tasks |-> IF sock'[t] = "closed" THEN NoHost ELSE tHost[t]]
    /\ UNCHANGED <<variant, phase, authenticated, closeCode, pc, tConn>>
    /\ UNCHANGED codec

\* The client goes away (handleWebSocketClose / ws.on('close')).
handleWebSocketClose(c) ==
    /\ Alive
    /\ connState[c] = "open"
    /\ connState' = [connState EXCEPT ![c] = "closed"]
    /\ authTimeout' = CloseTimer(c)
    /\ out' = NoOut
    /\ dgram' = NoDgram
    /\ bindEv' = NoBind
    /\ UNCHANGED <<variant, phase, activeProxies, authenticated, closeCode, taskVars>>
    /\ UNCHANGED codec

\* JSON.parse throws, or data.action is read off null.
ParseNeverThrows(m) == FALSE
ParseThrows(m) == m.kind \in {"garbage", "null"}
ValidAuthNever(m) == FALSE
ValidAuth(m) == m.kind = "auth" /\ m.args.token = AccessToken

\* The unauthenticated branch of handleWebSocketMessage / ws.once('message').
AuthStep(c, m) ==
    /\ IF ParseThrows(m)
       THEN /\ out' = Handled(c, m, [Resp(c, "error", "", "Malformed auth message")
                                         EXCEPT !.close = CloseMalformed])
            /\ connState' = CloseState(c, CloseMalformed)
            /\ closeCode' = CloseCodeOf(c, CloseMalformed)
            /\ authTimeout' = CloseTimer(c)
            /\ UNCHANGED authenticated
       ELSE IF ValidAuth(m)
       THEN /\ authenticated' = [authenticated EXCEPT ![c] = TRUE]
            /\ authTimeout' = [authTimeout EXCEPT ![c] = FALSE]
            /\ out' = Handled(c, m, Resp(c, "success", "", "Authenticated"))
            /\ UNCHANGED <<connState, closeCode>>
       ELSE /\ out' = Handled(c, m, [Resp(c, "error", "", "Invalid token")
                                         EXCEPT !.close = CloseInvalidToken])
            /\ connState' = CloseState(c, CloseInvalidToken)
            /\ closeCode' = CloseCodeOf(c, CloseInvalidToken)
            /\ authTimeout' = CloseTimer(c)
            /\ UNCHANGED authenticated
    /\ UNCHANGED <<activeProxies, taskVars>>

\* --------------------------------------------------------- port allocator
\* The OS side of a UDP bind on port p.  A port one of the service's own
\* sockets holds (a bound proxy socket, Bun's test socket not yet closed) is in
\* use; any other port is free, held by another process, or refused.
PortHeld(p) ==
    \E t \in Tasks : tPort[t] = p /\ (sock[t] = "bound" \/ pc[t] = "probed")

BindOutcomes(p) ==
    IF PortHeld(p) THEN {"EADDRINUSE"} ELSE {"ok", "EADDRINUSE", "EACCES"}

\* The for loop of findAvailablePort up to its next probe: the first port
\* from `port` on that is no key of the Map, 0 (null) past maxProxyPort.
NextCandidateNoSkip(m, port) == IF port > MaxProxyPort THEN 0 ELSE port

RECURSIVE NextCandidate(_, _)
NextCandidate(m, port) ==
    IF port > MaxProxyPort THEN 0
    ELSE IF MapHas(m, port) THEN NextCandidate(m, port + 1)
    ELSE port

\* Whether the probe of findAvailablePort settles on the candidate, given the
\* outcome of the bind.  Bun: the awaited udpSocket resolved.  Node: the
\* promise resolves on 'listening' and on an EADDRINUSE 'error'.
ProbeAccepts(r) ==
    IF variant = "bun" THEN r = "ok" ELSE r \in {"ok", "EADDRINUSE"}

FirstIdle == CHOOSE t \in Tasks : pc[t] = "idle" /\ \A u \in Tasks : u < t => pc[u] # "idle"

\* The locals of a createProxy call are dropped once the call has returned
\* and its socket, if any, is closed for good.
Forget(f, sk, zero) == [t \in Tasks |-> IF sk[t] = "closed" THEN zero ELSE f[t]]

\* A createProxy call ends with an error response.
FailTask(t, message) ==
    /\ pc' = [pc EXCEPT ![t] = "done"]
    /\ tPort' = [tPort EXCEPT ![t] = 0]
    /\ tHost' = [tHost EXCEPT ![t] = NoHost]
    /\ tConn' = [tConn EXCEPT ![t] = 0]
    /\ out' = Resp(tConn[t], "error", "create", message)
    /\ UNCHANGED <<sock, activeProxies>>

\* createProxy up to its first suspension inside findAvailablePort.
InvalidInput(a) == a.proxyHostAddress = <<>> \/ ~a.proxyHostPort.isNum

createProxy(c, m) ==
    IF InvalidInput(m.args)
    THEN /\ out' = Handled(c, m, Resp(c, "error", "create",
                                       "Invalid proxyHostAddress or proxyHostPort."))
         /\ UNCHANGED <<activeProxies, taskVars>>
    ELSE LET cand == NextCandidate(activeProxies, MinProxyPort)
             t == FirstIdle
         IN  IF cand = 0
             THEN /\ out' = Handled(c, m, Resp(c, "error", "create",
                                                "No available proxy ports."))
                  /\ UNCHANGED <<activeProxies, taskVars>>
             ELSE /\ pc' = [pc EXCEPT ![t] = "probe"]
                  /\ tConn' = [tConn EXCEPT ![t] = c]
                  /\ tHost' = [tHost EXCEPT ![t] = [address |-> m.args.proxyHostAddress,
                                                    port |-> m.args.proxyHostPort.val]]
                  /\ tPort' = [tPort EXCEPT ![t] = cand]
                  /\ out' = Handled(c, m, NoOut)
                  /\ UNCHANGED <<activeProxies, sock>>

\* The probe bind of findAvailablePort completes.
ProbeBind(t) ==
    /\ Alive
    /\ pc[t] = "probe"
    /\ \E r \in BindOutcomes(tPort[t]) :
       LET next == NextCandidate(activeProxies, tPort[t] + 1)
       IN  /\ bindEv' = [task |-> t, port |-> tPort[t], probe |-> TRUE, outcome |-> r]
           /\ IF ProbeAccepts(r)
              THEN /\ pc' = [pc EXCEPT ![t] = IF variant = "bun" THEN "probed" ELSE "bind"]
                   /\ out' = NoOut
                   /\ UNCHANGED <<tConn, tHost, tPort, sock, activeProxies>>
              ELSE IF next = 0
              THEN FailTask(t, "No available proxy ports.")
              ELSE /\ tPort' = [tPort EXCEPT ![t] = next]
                   /\ out' = NoOut
                   /\ UNCHANGED <<pc, tConn, tHost, sock, activeProxies>>
    /\ dgram' = NoDgram
    /\ UNCHANGED <<variant, phase, connVars>>
    /\ UNCHANGED codec

\* Bun: the awaited test socket is closed, the port returned, and the bind of
\* the proxy socket requested.
ProbeResume(t) ==
    /\ Alive
    /\ pc[t] = "probed"
    /\ pc' = [pc EXCEPT ![t] = "bind"]
    /\ out' = NoOut
    /\ dgram' = NoDgram
    /\ bindEv' = NoBind
    /\ UNCHANGED <<variant, phase, activeProxies, connVars, tConn, tHost, tPort, sock>>
    /\ UNCHANGED codec

\* The bind of the proxy socket completes.  ok: the session is registered and
\* the success response sent.  Failure, Bun: the awaited promise rejects and
\* the catch answers with the error.  Failure, Node: the socket's 'error'
\* handler closes it and deletes the key; the bind promise never settles.
BindRegisters(m, p, t) == MapSet(m, p, t)

BindDone(t) ==
    /\ Alive
    /\ pc[t] = "bind"
    /\ \E r \in BindOutcomes(tPort[t]) :
       /\ bindEv' = [task |-> t, port |-> tPort[t], probe |-> FALSE, outcome |-> r]
       /\ IF r = "ok"
          THEN /\ sock' = [sock EXCEPT ![t] = "bound"]
               /\ activeProxies' = BindRegisters(activeProxies, tPort[t], t)
               /\ pc' = [pc EXCEPT ![t] = "done"]
               /\ out' = [Resp(tConn[t], "success", "create", "Proxy created")
                             EXCEPT !.proxyPort = tPort[t]]
               /\ tConn' = [tConn EXCEPT ![t] = 0]
               /\ UNCHANGED <<tHost, tPort>>
          ELSE IF variant = "bun"
          THEN FailTask(t, r)
          ELSE /\ sock' = [sock EXCEPT ![t] = "closed"]
               /\ activeProxies' = MapDelete(activeProxies, tPort[t])
               /\ pc' = [pc EXCEPT ![t] = "hung"]
               /\ out' = NoOut
               /\ tPort' = Forget(tPort, sock', 0)
               /\ tHost' = Forget(tHost, sock', NoHost)
               /\ UNCHANGED tConn
    /\ dgram' = NoDgram
    /\ UNCHANGED <<variant, phase, connVars>>
    /\ UNCHANGED codec

\* ------------------------------------------------------- session registry
\* stopProxy.  Bun closes and deletes at once.  Node closes with a callback
\* that deletes once 'close' is emitted; close() on a socket that is not
\* running throws, which handleWebSocketMessage reports.
StopDeletesNow == variant = "bun"

stopProxy(c, m) ==
    LET p == m.args.proxyPort
        t == MapOwner(activeProxies, p)
    IN  IF ~MapHas(activeProxies, p)
        THEN /\ out' = Handled(c, m, Resp(c, "error", "stop", "Proxy not found."))
             /\ UNCHANGED <<activeProxies, taskVars>>
        ELSE IF StopDeletesNow
        THEN /\ sock' = [sock EXCEPT ![t] = "closed"]
             /\ activeProxies' = MapDelete(activeProxies, p)
             /\ out' = Handled(c, m, Resp(c, "success", "stop", "Proxy stopped"))
             /\ tPort' = Forget(tPort, sock', 0)
             /\ tHost' = Forget(tHost, sock', NoHost)
             /\ UNCHANGED <<pc, tConn>>
        ELSE IF sock[t] # "bound"
        THEN /\ out' = Handled(c, m, Resp(c, "error", "", "Not running"))
             /\ UNCHANGED <<activeProxies, taskVars>>
        ELSE /\ sock' = [sock EXCEPT ![t] = "closing"]
             /\ out' = Handled(c, m, Resp(c, "success", "stop", "Proxy stopped"))
             /\ UNCHANGED <<activeProxies, pc, tConn, tHost, tPort>>

\* Node: the callback given to close() in stopProxy.
StopCloseCallback(t) ==
    /\ Alive
    /\ sock[t] = "closing"
    /\ sock' = [sock EXCEPT ![t] = "closed"]
    /\ activeProxies' = MapDelete(activeProxies, tPort[t])
    /\ tPort' = Forget(tPort, sock', 0)
    /\ tHost' = Forget(tHost, sock', NoHost)
    /\ out' = NoOut
    /\ dgram' = NoDgram
    /\ bindEv' = NoBind
    /\ UNCHANGED <<variant, phase, connVars, pc, tConn>>
    /\ UNCHANGED codec

\* listProxies.
ListEntry(i) == [proxyPort |-> activeProxies[i].port,
                 proxyHost |-> tHost[activeProxies[i].owner]]
listProxies(c, m) ==
    /\ out' = Handled(c, m, [Resp(c, "success", "list", "")
                  EXCEPT !.proxies = [i \in 1..Len(activeProxies) |-> ListEntry(i)]])
    /\ UNCHANGED <<activeProxies, taskVars>>

\* The 'error' callback of a proxy socket.
SocketError(t) ==
    /\ Alive
    /\ sock[t] = "bound"
    /\ sock' = [sock EXCEPT ![t] = "closed"]
    /\ activeProxies' = MapDelete(activeProxies, tPort[t])
    /\ tPort' = Forget(tPort, sock', 0)
    /\ tHost' = Forget(tHost, sock', NoHost)
    /\ out' = NoOut
    /\ dgram' = NoDgram
    /\ bindEv' = NoBind
    /\ UNCHANGED <<variant, phase, connVars, pc, tConn>>
    /\ UNCHANGED codec

\* ------------------------------------------------------ command dispatch
\* handleAuthenticatedMessage (Bun) / handleWebSocketMessage (Node).  Reading
\* data.action off null throws: Node's try/catch answers with the error, in
\* Bun the un-awaited async call rejects and nothing is sent.
Dispatch(c, m) ==
    CASE m.kind = "garbage" ->
            /\ out' = Handled(c, m, Resp(c, "error", "", "Unexpected token"))
            /\ UNCHANGED <<activeProxies, taskVars>>
      [] m.kind = "null" ->
            /\ out' = Handled(c, m, IF variant = "bun" THEN NoOut
                         ELSE Resp(c, "error", "", "Cannot read properties of null"))
            /\ UNCHANGED <<activeProxies, taskVars>>
      [] m.kind = "list" -> listProxies(c, m)
      [] m.kind = "create" -> createProxy(c, m)
      [] m.kind = "stop" -> stopProxy(c, m)
      [] OTHER ->
            /\ out' = Handled(c, m, Resp(c, "error", "", "Unknown action."))
            /\ UNCHANGED <<activeProxies, taskVars>>

\* Whether a message is let through to the command dispatch.
GateOpen(c) == connState[c] = "open"
Gate(c) == authenticated[c]

handleWebSocketMessage(c, m) ==
    /\ Alive
    /\ connState[c] = "open"
    /\ (m.kind = "create" /\ ~InvalidInput(m.args)) => \E t \in Tasks : pc[t] = "idle"
    /\ IF Gate(c)
       THEN Dispatch(c, m) /\ UNCHANGED connVars
       ELSE AuthStep(c, m)
    /\ dgram' = NoDgram
    /\ bindEv' = NoBind
    /\ UNCHANGED <<variant, phase>>
    /\ UNCHANGED codec

\* ---------------------------------------------------------- relay session
Senders == {[address |-> AddrProxy, port |-> 9999],
            [address |-> AddrTarget, port |-> 53],
            [address |-> AddrTarget, port |-> 0]}
Payload == <<7>>
Datagrams == {encodeProxyMessage(AddrTarget, 53, Payload), <<1, 56>>}

isFromProxyHost(from, proxyHost) ==
    from.address = proxyHost.address /\ from.port = proxyHost.port

\* socket.send refuses a destination port outside 1..65535.
SendThrows(port) == port < 1 \/ port > MaxPort

Send(data, port, address) == [address |-> address, port |-> port, data |-> data]

\* What the data callback sends for one datagram: <<>> or one datagram.
Relayed(from, buf, proxyHost) ==
    IF isFromProxyHost(from, proxyHost)
    THEN IF DecodeThrows(buf) THEN <<>>
         ELSE LET d == decodeProxyMessage(buf)
              IN  <<Send(d.payload, d.targetPort, d.targetHost)>>
    ELSE IF EncodeThrows(from.address, from.port) \/ SendThrows(proxyHost.port) THEN <<>>
         ELSE <<Send(encodeProxyMessage(from.address, from.port, buf),
                     proxyHost.port, proxyHost.address)>>

\* Whether the data callback lets an exception escape.
RelayThrows(from, buf, proxyHost) ==
    /\ ~isFromProxyHost(from, proxyHost)
    /\ EncodeThrows(from.address, from.port) \/ SendThrows(proxyHost.port)

\* The data / 'message' callback of a proxy socket.  An exception that
\* escapes it is uncaught in Node and ends the process; Bun reports it, through
\* the socket's error callback or not.
Datagram(t, from, buf) ==
    /\ Alive
    /\ sock[t] = "bound"
    /\ dgram' = [on |-> t, from |-> from, buf |-> buf, proxyHost |-> tHost[t],
                 sent |-> Relayed(from, buf, tHost[t]),
                 threw |-> RelayThrows(from, buf, tHost[t])]
    /\ out' = NoOut
    /\ bindEv' = NoBind
    /\ IF ~RelayThrows(from, buf, tHost[t])
       THEN UNCHANGED <<phase, activeProxies, sock>>
       ELSE IF variant = "node"
       THEN phase' = "crashed" /\ UNCHANGED <<activeProxies, sock>>
       ELSE \/ UNCHANGED <<phase, activeProxies, sock>>
            \/ /\ sock' = [sock EXCEPT ![t] = "closed"]
               /\ activeProxies' = MapDelete(activeProxies, tPort[t])
               /\ UNCHANGED phase
    /\ connState' = IF phase' = "crashed" THEN ProcessGone ELSE connState
    /\ tPort' = Forget(tPort, sock', 0)
    /\ tHost' = Forget(tHost, sock', NoHost)
    /\ UNCHANGED <<variant, authenticated, authTimeout, closeCode, pc, tConn>>
    /\ UNCHANGED codec

\* --------------------------------------------------------------- shutdown
\* The loop of shutdown over the Map: close each entry's socket and delete
\* the key.  Node's close() throws on a socket that is closed already, which
\* ends the loop; Bun's close() is idempotent.
CloseThrows(st) == variant = "node" /\ st # "bound"

RECURSIVE ShutdownLoop(_, _, _)
ShutdownLoop(entries, m, sk) ==
    IF entries = <<>> THEN [map |-> m, sock |-> sk, threw |-> FALSE]
    ELSE LET e == Head(entries)
         IN  IF CloseThrows(sk[e.owner])
             THEN [map |-> m, sock |-> sk, threw |-> TRUE]
             ELSE ShutdownLoop(Tail(entries), MapDelete(m, e.port),
                               [sk EXCEPT ![e.owner] = "closed"])

\* shutdown().  Bun stops the server and exits the process.  Node closes the
\* WebSocketServer, which ends the open connections or leaves them open
\* depending on the ws release, and the process lives on.
shutdown ==
    /\ phase = "running"
    /\ LET r == ShutdownLoop(activeProxies, activeProxies, sock)
       IN  /\ activeProxies' = r.map
           /\ sock' = r.sock
           /\ IF r.threw
              THEN phase' = "crashed" /\ connState' = ProcessGone
              ELSE IF variant = "bun"
              THEN phase' = "exited" /\ connState' = ProcessGone
              ELSE /\ phase' = "stopped"
                   /\ \/ UNCHANGED connState
                      \/ connState' = ProcessGone
    /\ out' = NoOut
    /\ dgram' = NoDgram
    /\ bindEv' = NoBind
    /\ tPort' = Forget(tPort, sock', 0)
    /\ tHost' = Forget(tHost, sock', NoHost)
    /\ UNCHANGED <<variant, authenticated, authTimeout, closeCode, pc, tConn>>
    /\ UNCHANGED codec

\* ------------------------------------------------------------------- spec
Next ==
    \/ \E c \in Conns : handleWebSocketOpen(c)
    \/ \E c \in Conns : AuthTimeoutFires(c)
    \/ \E c \in Conns : handleWebSocketClose(c)
    \/ \E c \in Conns, m \in Messages : handleWebSocketMessage(c, m)
    \/ \E t \in Tasks : ProbeBind(t)
    \/ \E t \in Tasks : ProbeResume(t)
    \/ \E t \in Tasks : BindDone(t)
    \/ \E t \in Tasks : StopCloseCallback(t)
    \/ \E t \in Tasks : SocketError(t)
    \/ \E t \in Tasks, from \in Senders, buf \in Datagrams : Datagram(t, from, buf)
    \/ shutdown

Spec == Init /\ [][Next]_vars

\* The event loop runs a timer armed with setTimeout once its delay has passed,
\* as long as the process lives: the auth deadline of a connection is not
\* postponed forever.
LiveSpec == Spec /\ \A c \in Conns : WF_vars(AuthTimeoutFires(c))

\* ------------------------------------------- the exported codec functions
\* encodeProxyMessage and decodeProxyMessage are exported: a behaviour of
\* CodecSpec is one call of encodeProxyMessage followed by decodeProxyMessage
\* on the frame, or one call of decodeProxyMessage on a buffer.
MaxHost == 64

\* n times the surrogate pair of U+1F600, four bytes of UTF-8 each.
Pairs(n) == [i \in 1..(2 * n) |-> IF i % 2 = 1 THEN 55357 ELSE 56832]

Hosts == {<<>>, <<97>>, <<233>>, <<8364>>, <<97, 46, 233>>,
          <<ByteOrderMark>>, <<ByteOrderMark, 97>>,
          Pairs(1), <<55296>>, <<97, 56832>>,
          Pairs(MaxHost - 1) \o <<8364>>, Pairs(MaxHost)}
TargetPorts == {-1, 0, 1, 53, 255, 256, MaxPort, MaxPort + 1}
Payloads == {<<>>, <<7>>, <<0, 255>>}
RawBuffers == {<<>>, <<0>>, <<1, 97, 0>>, <<0, 0, 53>>, <<0, 0, 53, 7>>,
               <<1, 97, 0, 0>>, <<1, 97, 0, 53>>, <<1, 97, 0, 0, 7>>,
               <<5, 97, 0, 53>>, <<2, 97, 0, 53>>, <<255, 97, 0, 53, 1>>,
               <<3, 239, 187, 191, 0, 53>>, <<1, 255, 0, 53>>,
               <<1, 97, 255, 255, 9>>, <<2, 195, 169, 1, 0, 7, 8>>}

CodecInit ==
    /\ variant \in {"bun", "node"}
    /\ phase = "running"
    /\ activeProxies = <<>>
    /\ connState = [c \in Conns |-> "none"]
    /\ authenticated = [c \in Conns |-> FALSE]
    /\ authTimeout = [c \in Conns |-> FALSE]
    /\ closeCode = [c \in Conns |-> 0]
    /\ pc = [t \in Tasks |-> "idle"]
    /\ tConn = [t \in Tasks |-> 0]
    /\ tHost = [t \in Tasks |-> NoHost]
    /\ tPort = [t \in Tasks |-> 0]
    /\ sock = [t \in Tasks |-> "none"]
    /\ out = NoOut
    /\ dgram = NoDgram
    /\ bindEv = NoBind
    /\ \/ \E h \in Hosts, p \in TargetPorts, d \in Payloads :
             codec = [NoCall EXCEPT !.step = "args", !.host = h, !.port = p,
                                    !.payload = d]
       \/ \E b \in RawBuffers : codec = [NoCall EXCEPT !.step = "raw", !.buf = b]

serviceVars == <<variant, phase, activeProxies, connVars, taskVars, out, dgram, bindEv>>

CallEncode ==
    /\ codec.step = "args"
    /\ codec' = [codec EXCEPT
          !.step = "encoded",
          !.threw = EncodeThrows(codec.host, codec.port),
          !.buf = IF EncodeThrows(codec.host, codec.port) THEN <<>>
                  ELSE encodeProxyMessage(codec.host, codec.port, codec.payload)]
    /\ UNCHANGED serviceVars

\* The highest offset decodeProxyMessage reads: nothing but the length when
\* it is under 4, the hostname length byte when the header is incomplete,
\* else the header.
DecodeReads(messageBuffer) ==
    IF Len(messageBuffer) < 4 THEN 0
    ELSE IF Len(messageBuffer) < 1 + messageBuffer[1] + 2 THEN 1
    ELSE 1 + messageBuffer[1] + 2

CallDecode ==
    /\ \/ codec.step = "raw"
       \/ codec.step = "encoded" /\ ~codec.threw
    /\ codec' = [codec EXCEPT
          !.step = "decoded",
          !.threw = DecodeThrows(codec.buf),
          !.reads = DecodeReads(codec.buf),
          !.result = IF DecodeThrows(codec.buf) THEN NoResult
                     ELSE decodeProxyMessage(codec.buf)]
    /\ UNCHANGED serviceVars

CodecNext == CallEncode \/ CallDecode

CodecSpec == CodecInit /\ [][CodecNext]_vars

\* ================================================================ claims
\* A step in which createProxy call t returns its success response.
Succeeds(t) == pc[t] = "bind" /\ pc'[t] = "done" /\ sock'[t] = "bound"

\* C1: two create commands in flight at the same time never both return a
\* success response carrying the same proxyPort while the first session is
\* still registered: no create returns success with a port that is, at that
\* moment, the key of another session's registry entry.
C1_NoSecondSuccessOnRegisteredPort ==
    [][\A t \in Tasks : Succeeds(t) => ~MapHas(activeProxies, tPort[t])]_vars

\* The registry entry of port p: its owner, 0 when p is no key.
EntryOf(m, p) == IF MapHas(m, p) THEN MapOwner(m, p) ELSE 0

\* C2: the allocate-then-register sequence of create is atomic per port: while
\* a create holds the port p that findAvailablePort returned to it and has not
\* yet registered p or failed, no other create is handed p, and no other step
\* changes the registry entry of p.
C2_AllocateRegisterAtomic ==
    [][\A t \in Tasks : (pc[t] = "bind" /\ pc'[t] = "bind") =>
          /\ \A u \in Tasks \ {t} :
                (pc[u] # "bind" /\ pc'[u] = "bind") => tPort'[u] # tPort[t]
          /\ EntryOf(activeProxies', tPort[t]) = EntryOf(activeProxies, tPort[t])]_vars

\* C3: no registry operation is executed for a connection that has not
\* authenticated: a message handled while the connection's authenticated flag
\* is false changes neither the registry nor any session or create call, and is
\* answered with no list/create/stop response.
C3_UnauthenticatedDoesNothing ==
    [][\A c \in Conns : (out'.from = c /\ ~authenticated[c]) =>
          /\ UNCHANGED <<activeProxies, taskVars>>
          /\ out'.action = ""
          /\ out'.proxies = <<>>
          /\ out'.proxyPort = 0]_vars

\* An unauthenticated connection asked to stop a registered session and was
\* closed instead; the session is still registered and bound.
C3_Witness ==
    /\ out.from # 0
    /\ ~authenticated[out.from]
    /\ out.req.kind = "stop"
    /\ MapHas(activeProxies, out.req.args.proxyPort)
    /\ sock[MapOwner(activeProxies, out.req.args.proxyPort)] = "bound"
    /\ out.close = CloseInvalidToken

\* C4: in every reachable state, every key of the session registry lies within
\* [minProxyPort, maxProxyPort] and maps to a session whose UDP socket is
\* bound on that port, neither closed nor closing.
C4_RegistryKeysBound ==
    Alive => \A i \in 1..Len(activeProxies) :
                /\ activeProxies[i].port \in Ports
                /\ sock[activeProxies[i].owner] = "bound"
                /\ tPort[activeProxies[i].owner] = activeProxies[i].port

\* C5: stop(port) returns success exactly when port is a key of the registry;
\* when it succeeds the session's socket is closed and the entry removed before
\* the response is produced (so a second stop right after fails with 'Proxy
\* not found.'); when it fails the registry is unchanged.
C5_StopClosesAndRemoves ==
    [][(out'.from # 0 /\ authenticated[out'.from] /\ out'.req.kind = "stop") =>
          LET p == out'.req.args.proxyPort
          IN  IF MapHas(activeProxies, p)
              THEN /\ out'.status = "success"
                   /\ ~MapHas(activeProxies', p)
                   /\ sock'[MapOwner(activeProxies, p)] \in {"closed", "closing"}
              ELSE /\ out'.status = "error"
                   /\ out'.message = "Proxy not found."
                   /\ activeProxies' = activeProxies]_vars

\* A step in which findAvailablePort hands its candidate to createProxy call t.
Handed(t) == pc[t] \in {"probe", "probed"} /\ pc'[t] = "bind"

\* C6: in findAvailablePort a candidate whose probe bind fails for any reason,
\* 'address already in use' included, is never returned: the allocator moves on
\* to the next candidate, and returns none when no candidate is left.
C6_FailedProbeNeverReturned ==
    [][\A t \in Tasks :
          (bindEv'.task = t /\ bindEv'.probe /\ bindEv'.outcome # "ok") =>
             /\ ~Handed(t)
             /\ pc'[t] \in {"probe", "done"}
             /\ pc'[t] = "probe" =>
                   /\ tPort'[t] > bindEv'.port
                   /\ ~MapHas(activeProxies, tPort'[t])
             /\ pc'[t] = "done" =>
                   /\ out'.message = "No available proxy ports."
                   /\ \A p \in (bindEv'.port + 1)..MaxProxyPort : MapHas(activeProxies, p)]_vars

\* The lowest port of the range that is no key of the registry, 0 if none.
LowestFree(m) ==
    IF \A p \in Ports : MapHas(m, p) THEN 0
    ELSE CHOOSE p \in Ports : ~MapHas(m, p) /\ \A q \in Ports : q < p => MapHas(m, q)

\* A step that handles a well-formed create of an authenticated connection.
CreateCalled ==
    /\ out'.from # 0
    /\ authenticated[out'.from]
    /\ out'.req.kind = "create"
    /\ ~InvalidInput(out'.req.args)

C8_ExactlyOneRelayEffect ==
    dgram.on # 0 =>
       /\ ~dgram.threw
       /\ IF isFromProxyHost(dgram.from, dgram.proxyHost)
          THEN IF DecodeThrows(dgram.buf)
               THEN dgram.sent = <<>>
               ELSE LET d == decodeProxyMessage(dgram.buf)
                    IN  dgram.sent = <<[address |-> d.targetHost,
                                        port |-> d.targetPort,
                                        data |-> d.payload]>>
          ELSE /\ Len(dgram.sent) = 1
               /\ dgram.sent[1].address = dgram.proxyHost.address
               /\ dgram.sent[1].port = dgram.proxyHost.port
               /\ ~DecodeThrows(dgram.sent[1].data)
               /\ decodeProxyMessage(dgram.sent[1].data) =
                     [targetHost |-> dgram.from.address,
                      targetPort |-> dgram.from.port,
                      payload |-> dgram.buf]

\* A createProxy call of connection c is in flight in task t.
Pending(t) == pc[t] \in {"probe", "probed", "bind"}

\* The steps C9 allows: a handled message is answered or starts the call that
\* owes the answer; a call that owes an answer stays in flight or sends it.
C9_Step ==
    /\ \A c \in Conns :
          (out'.from = c /\ authenticated[c]) =>
             /\ out'.close = 0
             /\ connState'[c] = "open"
             /\ \/ out'.to = c
                \/ \E t \in Tasks : ~Pending(t) /\ Pending(t)' /\ tConn'[t] = c
    /\ \A t \in Tasks :
          (tConn[t] # 0 /\ Alive') =>
             \/ Pending(t)' /\ tConn'[t] = tConn[t]
             \/ ~Pending(t)' /\ tConn'[t] = 0 /\ out'.to = tConn[t]

\* C9: every message received from an authenticated connection eventually
\* gets exactly one JSON response, and a response with status 'error' never
\* closes the connection: the step that handles the message sends the response
\* or starts the createProxy call that owes it, leaves the connection open,
\* and a call that owes a response stays in flight until it sends it.
C9_EveryMessageAnswered == [][C9_Step]_vars

\* The auth deadline of c fires while c is open and not authenticated.
DeadlineHits(c) == out'.timer = c /\ connState[c] = "open" /\ ~authenticated[c]

\* C10: a connection that is not authenticated when its 5 s timer fires is
\* closed with code 4001, and every connection that never sends a message (so
\* never authenticates) is eventually closed.
C10_AuthDeadline ==
    /\ [][\A c \in Conns :
             DeadlineHits(c) =>
                /\ connState'[c] = "closed"
                /\ closeCode'[c] = CloseAuthRequired
                /\ out'.close = CloseAuthRequired]_vars
    /\ \A c \in Conns :
          (connState[c] = "open" /\ ~authenticated[c])
             ~> (connState[c] = "closed" \/ authenticated[c])

\* The deadline closed an open connection that had sent nothing.
C10_Witness ==
    /\ out.timer # 0
    /\ out.close = CloseAuthRequired
    /\ connState[out.timer] = "closed"
    /\ closeCode[out.timer] = CloseAuthRequired
    /\ ~authenticated[out.timer]

\* The kinds of message whose text is no JSON / off which no action can be read.
NotJson == {"garbage"}
NoActionReadable == {"garbage", "null"}

\* The close code the cause of a closure calls for, given which first messages
\* count as malformed.
CauseCode(c, malformed) ==
    IF out'.timer = c THEN CloseAuthRequired
    ELSE IF malformed THEN CloseMalformed
    ELSE CloseInvalidToken

\* Closures of unauthenticated connections carry the code of their cause, and
\* a code once given is never replaced.
CloseCodesFollowCause(malformed) ==
    \A c \in Conns :
       /\ closeCode[c] # 0 => closeCode'[c] = closeCode[c]
       /\ (closeCode[c] = 0 /\ closeCode'[c] # 0) =>
             /\ ~authenticated[c]
             /\ connState[c] = "open" /\ connState'[c] = "closed"
             /\ out'.timer = c \/ out'.from = c
             /\ closeCode'[c] = CauseCode(c, out'.req.kind \in malformed)
             /\ out'.close = closeCode'[c]
       /\ (connState[c] = "open" /\ ~authenticated[c] /\ out'.timer = c) =>
             closeCode'[c] = CloseAuthRequired
       /\ (out'.from = c /\ ~authenticated[c] /\ ~ValidAuth(out'.req)) =>
             closeCode'[c] = CauseCode(c, out'.req.kind \in malformed)

\* C11 (as stated): every closure of an unauthenticated connection carries
\* the close reason of its own cause and of no other: deadline expiry 4001, a
\* parsable first message that is not a valid auth 4003, a non-parsable
\* message 4002; at most one reason per connection.
C11_CloseCodeByParsability == [][CloseCodesFollowCause(NotJson)]_vars

\* C11 (amended): as above, with 4002 for every first message off which no
\* action can be read: text that is no JSON, and the JSON text null; 4003 for
\* every other first message that is not a valid auth.
C11_CloseCodeByCause == [][CloseCodesFollowCause(NoActionReadable)]_vars

\* An unauthenticated connection sent null and was closed as malformed.
C11_Witness ==
    /\ out.from # 0
    /\ ~authenticated[out.from]
    /\ out.req.kind = "null"
    /\ out.close = CloseMalformed
    /\ closeCode[out.from] = CloseMalformed
    /\ connState[out.from] = "closed"

\* The last step handled, for connection c, the auth message with the
\* configured token while c was awaiting auth.
AuthSent(c) ==
    /\ out'.from = c
    /\ ~authenticated[c]
    /\ out'.req.kind = "auth"
    /\ out'.req.args.token = AccessToken

\* The last step handed the list / create / stop message of c to the registry
\* operation of that name, whose outcome (or whose exception) is what c is
\* answered, or which is left in flight.
DispatchedToRegistry(c) ==
    /\ out'.close = 0
    /\ out'.message \notin {"Authenticated", "Invalid token", "Malformed auth message"}
    /\ CASE out'.req.kind = "list" ->
              /\ out'.to = c /\ out'.action = "list" /\ out'.status = "success"
              /\ Len(out'.proxies) = Len(activeProxies)
         [] out'.req.kind = "stop" ->
              /\ out'.to = c
              /\ \/ out'.action = "stop"
                 \/ /\ MapHas(activeProxies, out'.req.args.proxyPort)
                    /\ sock[MapOwner(activeProxies, out'.req.args.proxyPort)] # "bound"
         [] out'.req.kind = "create" ->
              \/ out'.to = c /\ out'.action = "create"
              \/ \E t \in Tasks : pc[t] = "idle" /\ pc'[t] = "probe" /\ tConn'[t] = c
         [] OTHER -> TRUE

\* C12: a connection awaiting auth that sends {action:'auth', token} with the
\* configured token becomes authenticated, gets a success acknowledgement and
\* has its deadline timer cancelled; from then on it stays authenticated, the
\* deadline neither fires for it nor closes it, and its list / create / stop
\* messages are dispatched to the registry.
C12_AuthSuccess ==
    [][\A c \in Conns :
          /\ AuthSent(c) =>
                /\ authenticated'[c]
                /\ ~authTimeout'[c]
                /\ connState'[c] = "open"
                /\ out'.to = c /\ out'.status = "success"
                /\ out'.message = "Authenticated" /\ out'.close = 0
          /\ authenticated[c] =>
                /\ authenticated'[c]
                /\ ~authTimeout[c] /\ ~authTimeout'[c]
                /\ out'.timer # c
                /\ closeCode'[c] = 0
                /\ out'.from = c => DispatchedToRegistry(c)]_vars

\* An authenticated connection listed a registry that holds a session.
C12_Witness ==
    /\ out.from # 0
    /\ authenticated[out.from]
    /\ ~authTimeout[out.from]
    /\ out.req.kind = "list"
    /\ out.action = "list"
    /\ Len(out.proxies) = 1
    /\ connState[out.from] = "open"

\* The step in which shutdown runs (the other step that ends the running
\* phase is a datagram whose handler throws).
ShutdownRuns == phase = "running" /\ phase' # "running" /\ dgram'.on = 0

\* C13: after shutdown has run, every session that was registered has had its
\* socket closed and been removed (the registry is empty), and every control
\* connection, authenticated or not, is closed.
C13_ShutdownClosesAll ==
    [][ShutdownRuns =>
          /\ activeProxies' = <<>>
          /\ \A i \in 1..Len(activeProxies) : sock'[activeProxies[i].owner] = "closed"
          /\ \A c \in Conns : connState'[c] # "open"]_vars

\* The arguments of a create name no proxy host: the address is empty or the
\* port is no port number.
NoValidProxyHost(a) ==
    \/ a.proxyHostAddress = <<>>
    \/ ~a.proxyHostPort.isNum
    \/ a.proxyHostPort.val < 1
    \/ a.proxyHostPort.val > MaxPort

\* C14: create fails with an invalid-input error response, without probing
\* any port and without changing the registry, whenever proxyHostAddress is
\* empty or proxyHostPort is not a valid port number (not a number, or outside
\* 1..65535).
C14_InvalidInputRejected ==
    [][\A c \in Conns :
          (/\ out'.from = c
           /\ authenticated[c]
           /\ out'.req.kind = "create"
           /\ NoValidProxyHost(out'.req.args)) =>
             /\ out'.to = c
             /\ out'.status = "error"
             /\ out'.action = "create"
             /\ out'.message = "Invalid proxyHostAddress or proxyHostPort."
             /\ UNCHANGED <<activeProxies, taskVars>>]_vars

\* A string every surrogate of which is half of a pair: the strings that
\* have a UTF-8 encoding.
WellFormed(str) ==
    \A i \in 1..Len(str) :
       /\ IsHighSurrogate(str[i]) => (i < Len(str) /\ IsLowSurrogate(str[i + 1]))
       /\ IsLowSurrogate(str[i]) => (i > 1 /\ IsHighSurrogate(str[i - 1]))

\* The arguments of the encodeProxyMessage call are in the round-trip domain.
RoundTripArgs ==
    /\ WellFormed(codec.host)
    /\ Len(Utf8Encode(codec.host)) >= 1
    /\ Len(Utf8Encode(codec.host)) <= MaxHostnameBytes
    /\ codec.port >= 1 /\ codec.port <= MaxPort

\* C15: round-trip: for every host whose UTF-8 encoding has 1..255 bytes,
\* every port in 1..65535 and every payload (the empty one included),
\* decodeProxyMessage(encodeProxyMessage(host, port, payload)) returns
\* exactly (host, port, payload).
C15_RoundTrip ==
    (RoundTripArgs /\ codec.step \in {"encoded", "decoded"}) =>
       /\ ~codec.threw
       /\ codec.step = "decoded" =>
             codec.result = [targetHost |-> codec.host, targetPort |-> codec.port,
                             payload |-> codec.payload]

\* The number of bytes of the UTF-8 encoding of units lo..hi of a string, the
\* two halves of a surrogate pair counted as 3 + 1.
RECURSIVE Utf8BytesIn(_, _, _)
Utf8BytesIn(str, lo, hi) ==
    IF lo > hi THEN 0
    ELSE IF lo = hi
    THEN IF str[lo] < 128 THEN 1
         ELSE IF str[lo] < 2048 THEN 2
         ELSE IF IsLowSurrogate(str[lo]) /\ lo > 1 /\ IsHighSurrogate(str[lo - 1])
         THEN 1
         ELSE 3
    ELSE LET mid == (lo + hi) \div 2
         IN  Utf8BytesIn(str, lo, mid) + Utf8BytesIn(str, mid + 1, hi)

Utf8Bytes(str) == Utf8BytesIn(str, 1, Len(str))

\* C16: encodeProxyMessage fails (throws and returns no frame) for every
\* hostname whose UTF-8 encoding is longer than 255 bytes and for every target
\* port outside [1, 65535], whatever the other arguments are.
C16_EncodeBounds ==
    (/\ codec.step = "encoded"
     /\ \/ Utf8Bytes(codec.host) > MaxHostnameBytes
        \/ codec.port < 1
        \/ codec.port > MaxPort) =>
       codec.threw /\ codec.buf = <<>>

\* encodeProxyMessage threw on a hostname of over 255 bytes with a valid port.
C16_Witness ==
    /\ codec.step = "encoded"
    /\ codec.threw
    /\ Utf8Bytes(codec.host) > MaxHostnameBytes
    /\ codec.port = 53
    /\ codec.payload = <<7>>

\* The buffer is one decodeProxyMessage has to refuse.
Undecodable(b) ==
    IF Len(b) < 4 THEN TRUE
    ELSE IF Len(b) < 1 + b[1] + 2 THEN TRUE
    ELSE b[1] = 0 \/ (b[b[1] + 2] = 0 /\ b[b[1] + 3] = 0)

\* C17: decodeProxyMessage fails on every input of fewer than 4 bytes, on
\* every input whose declared hostname length makes the header (1 + length +
\* 2 bytes) exceed the buffer, on every input with an empty hostname, and on
\* every input whose decoded port is 0; it never reads past the end of the
\* buffer.
C17_DecodeRejects ==
    codec.step = "decoded" =>
       /\ Undecodable(codec.buf) => (codec.threw /\ codec.result = NoResult)
       /\ codec.reads <= Len(codec.buf)

\* decodeProxyMessage threw on a complete frame whose port is 0.
C17_Witness ==
    /\ codec.step = "decoded"
    /\ codec.threw
    /\ codec.buf = <<1, 97, 0, 0, 7>>
    /\ codec.reads = 4

\* The step runs the error callback of the socket of createProxy call t: on
\* a bound socket, or (Node) on the socket whose bind failed.
ErrorReported(t) ==
    \/ /\ sock[t] = "bound" /\ sock'[t] = "closed"
       /\ out'.from = 0
       /\ phase' = phase
    \/ /\ variant = "node"
       /\ bindEv'.task = t /\ ~bindEv'.probe /\ bindEv'.outcome # "ok"

\* The registry without the entries of session t.
WithoutOwner(m, t) == SelectSeq(m, LAMBDA e : e.owner # t)

\* C18: when the socket of a relay session reports a socket-level error, that
\* session's socket is closed and that session's own registry entry is
\* removed, and nothing else changes: the entry of a different session that
\* holds the same port number stays, and no other session is closed.
C18_ErrorEndsOnlyItsSession ==
    [][\A t \in Tasks :
          ErrorReported(t) =>
             /\ sock'[t] = "closed"
             /\ activeProxies' = WithoutOwner(activeProxies, t)
             /\ \A u \in Tasks \ {t} : sock'[u] = sock[u]
             /\ UNCHANGED connVars]_vars

\* C19: shutdown completes without raising, closing every remaining session
\* and the control server, also when some registered session's socket is
\* already closed or closing at that moment.
C19_ShutdownNeverRaises ==
    [][ShutdownRuns =>
          /\ phase' \in {"stopped", "exited"}
          /\ \A t \in Tasks : sock[t] = "bound" => sock'[t] = "closed"
          /\ \A t \in Tasks : sock'[t] # "bound"]_vars

\* The step answers a create command.
CreateAnswered == out'.to # 0 /\ out'.action = "create"

\* C20: a create with valid input that gets no port from the allocator
\* returns the error 'No available proxy ports.'; otherwise it binds a socket
\* on the allocated port, adds exactly one registry entry port -> proxyHost as
\* given and returns success with that port.  Whenever create returns
\* success the returned port is a registry key mapped to the given proxy
\* host; whenever it returns an error the registry is left as it was.
C20_CreateContract ==
    [][/\ (CreateCalled /\ LowestFree(activeProxies) = 0) =>
             out'.status = "error" /\ out'.message = "No available proxy ports."
       /\ \A t \in Tasks :
             /\ (pc[t] = "probe" /\ pc'[t] = "done") =>
                   out'.status = "error" /\ out'.message = "No available proxy ports."
             /\ (pc[t] = "bind" /\ pc'[t] # "bind") =>
                   /\ sock'[t] = "bound"
                   /\ ~MapHas(activeProxies, tPort[t])
                   /\ activeProxies' =
                         Append(activeProxies, [port |-> tPort[t], owner |-> t])
                   /\ tHost'[t] = tHost[t]
                   /\ out'.to = tConn[t]
                   /\ out'.status = "success" /\ out'.action = "create"
                   /\ out'.proxyPort = tPort[t]
       /\ (CreateAnswered /\ out'.status = "success") =>
             /\ MapHas(activeProxies', out'.proxyPort)
             /\ sock'[MapOwner(activeProxies', out'.proxyPort)] = "bound"
       /\ (CreateAnswered /\ out'.status = "error") =>
             activeProxies' = activeProxies]_vars

\* C21: no relay socket is leaked: while the process lives, every relay
\* socket that is bound on a proxy port is the socket of the registry entry
\* for that port; there is never a bound relay socket that no registry key
\* refers to.
C21_NoSocketLeak ==
    Alive =>
       \A t \in Tasks :
          sock[t] = "bound" =>
             /\ MapHas(activeProxies, tPort[t])
             /\ MapOwner(activeProxies, tPort[t]) = t

\* Connection c was closed for a first message that was no valid auth.
AuthFailed(c) == closeCode[c] \in {CloseMalformed, CloseInvalidToken}

\* C22: an auth failure is terminal for its connection: a first message that
\* is invalid (wrong token, other action) or not parsable fails the auth, and
\* from then on the connection is closed, never becomes authenticated and no
\* later message from it is processed or answered, even one carrying the
\* correct token.
C22_AuthFailureTerminal ==
    [][\A c \in Conns :
          /\ (/\ out'.from = c /\ ~authenticated[c]
              /\ ~(out'.req.kind = "auth" /\ out'.req.args.token = AccessToken)) =>
                AuthFailed(c)' /\ ~authenticated'[c] /\ connState'[c] = "closed"
          /\ AuthFailed(c) =>
                /\ ~authenticated'[c]
                /\ connState'[c] = "closed"
                /\ closeCode'[c] = closeCode[c]
                /\ out'.from # c /\ out'.to # c]_vars

\* After a connection failed its auth, a message of another connection was
\* handled.
C22_Witness ==
    \E c \in Conns :
       /\ closeCode[c] = CloseInvalidToken
       /\ connState[c] = "closed"
       /\ ~authenticated[c]
       /\ out.from \notin {0, c}
       /\ out.req.kind = "auth"
       /\ authenticated[out.from]

\* C23: handling an inbound datagram never changes the registry and never
\* closes the session, for any sender and any content: no exception escapes
\* the handler, the registry, the relay sockets and the process are as
\* before, and the session goes on relaying.
C23_DatagramLeavesRegistry ==
    [][dgram'.on # 0 =>
          /\ ~dgram'.threw
          /\ activeProxies' = activeProxies
          /\ sock' = sock
          /\ phase' = phase
          /\ connState' = connState]_vars

\* shutdown has run to its end.
ShutdownDone == phase \in {"stopped", "exited"}

\* C24: after shutdown has run, the registry stays empty and no relay socket
\* is bound again: neither a create that was in flight when shutdown ran nor
\* a command received afterwards registers a new session.
C24_NothingAfterShutdown ==
    [][ShutdownDone =>
          /\ activeProxies' = <<>>
          /\ \A t \in Tasks : sock'[t] = "bound" => sock[t] = "bound"
          /\ \A t \in Tasks : ~Succeeds(t)]_vars

\* Connection c ends while the process goes on: the client disconnects, the
\* auth fails or the auth deadline passes.
ConnectionEnds(c) ==
    /\ connState[c] = "open"
    /\ connState'[c] = "closed"
    /\ phase' = phase
    /\ dgram'.on = 0

\* C25: the end of a control connection, by client disconnect, auth failure
\* or auth timeout, leaves the registry and every relay session unchanged:
\* the sessions stay registered with their sockets, ports and proxy hosts.
C25_ConnectionEndKeepsSessions ==
    [][\A c \in Conns :
          ConnectionEnds(c) =>
             /\ activeProxies' = activeProxies
             /\ sock' = sock
             /\ tPort' = tPort
             /\ tHost' = tHost
             /\ pc' = pc]_vars

\* Every control connection is gone and a session created over one of them
\* is registered and relays a datagram.
C25_Witness ==
    /\ \A c \in Conns : connState[c] = "closed"
    /\ \E c \in Conns : authenticated[c]
    /\ \E c \in Conns : closeCode[c] = CloseAuthRequired
    /\ phase = "running"
    /\ dgram.on # 0
    /\ dgram.sent # <<>>
    /\ sock[dgram.on] = "bound"
    /\ MapHas(activeProxies, tPort[dgram.on])

\* What the Bun variant does on two inputs, stated on what a client observes
\* (responses and registry contents): a stop answered with success has
\* removed its port from the registry when the response is sent, and a relay
\* bind that fails is answered with an error response to the create.
BunObservable ==
    /\ (/\ out'.from # 0
        /\ out'.req.kind = "stop"
        /\ out'.status = "success") =>
          ~MapHas(activeProxies', out'.req.args.proxyPort)
    /\ (/\ bindEv'.task # 0
        /\ ~bindEv'.probe
        /\ bindEv'.outcome # "ok") =>
          /\ out'.to # 0
          /\ out'.status = "error"
          /\ out'.action = "create"
          /\ activeProxies' = activeProxies

\* C26: the Bun variant and the Node variant are equivalent: driven by the
\* same control messages, timer firings, datagrams, bind outcomes and socket
\* errors they produce the same responses, close codes and sent datagrams and
\* hold the same registry contents after every step; so what a client
\* observes of every step of the Bun variant, it observes of every step of
\* the Node variant on the same input.
C26_VariantsEquivalent == [][BunObservable]_vars

\* The big-endian port field of a frame whose header is complete.
PortField(b) == b[b[1] + 2] * 256 + b[b[1] + 3]

\* C27: every frame that encodeProxyMessage returns is accepted by
\* decodeProxyMessage: its hostname length byte is not 0, its header is
\* complete, its port field is within 1..65535 and decodeProxyMessage does
\* not throw on it.
C27_EncodedFrameAccepted ==
    (codec.step = "encoded" /\ ~codec.threw) =>
       /\ Len(codec.buf) >= 4
       /\ codec.buf[1] >= 1
       /\ Len(codec.buf) >= 1 + codec.buf[1] + 2
       /\ PortField(codec.buf) >= 1
       /\ PortField(codec.buf) <= MaxPort
       /\ ~DecodeThrows(codec.buf)

====
